---- MODULE Spec2Model ----
(***************************************************************************)
(* The greedy memory planner of src/greedy_memory_planner.{h,cc}: a        *)
(* GreedyMemoryPlanner object, the calls a client makes on it, and the     *)
(* layout pass CalculateOffsetsIfNeeded.  Arrays are functions over their  *)
(* index range, pointers into buffers_sorted_by_offset_ are pool indices,  *)
(* and a cell the code has not written yet holds the marker Indeterminate. *)
(***************************************************************************)
EXTENDS Integers, Sequences, FiniteSets, TLC

\* ---------------------------------------------------------------- bounds
\* The capacity of the planner's arrays (1024 in the source, scaled down).
kMaxBufferCount == 3
\* Buffer sizes a client passes: 0..MaxSize.
MaxSize == 2
\* Time steps a client passes: 0..MaxTime, with first <= last.
MaxTime == 1

\* ------------------------------------------------------------- constants
\* next_entry_index of the last entry of the list.
NoNext == -1
\* A null ListEntry pointer.
nullptr == -1
\* Marker of a cell that has never been written (the constructor initialises
\* only buffer_count_ and need_to_calculate_offsets_).
Indeterminate == -2
\* The ints a read of a never-written cell may produce.
IndeterminateReads == {0, MaxSize + 1}

Sizes == 0..MaxSize
Times == 0..MaxTime
Slots == 0..(kMaxBufferCount - 1)
\* buffer_index values a client passes to GetOffsetForBuffer.
Indexes == (0 - 1)..kMaxBufferCount

VARIABLES
  planner,   \* the GreedyMemoryPlanner object, one field per data member
  ret,       \* the last call made on planner and what it returned
  prev_op,   \* the name of the call made before that one
  twin,      \* a second GreedyMemoryPlanner object
  twin_ret,  \* the last call made on twin and what it returned
  replanned  \* whether a layout pass has replaced an earlier plan of planner

vars == <<planner, ret, prev_op, twin, twin_ret, replanned>>

\* ----------------------------------------------------------- the object
BufferRequirements(size, first, last) ==
  [size |-> size, first_time_used |-> first, last_time_used |-> last]

ListEntry(offset, requirements_index, next_entry_index) ==
  [offset |-> offset, requirements_index |-> requirements_index,
   next_entry_index |-> next_entry_index]

\* The object as the constructor leaves it.
GreedyMemoryPlanner ==
  [requirements_ |-> [i \in Slots |->
       BufferRequirements(Indeterminate, Indeterminate, Indeterminate)],
   buffer_count_ |-> 0,
   buffer_sizes_sorted_by_size_ |-> [i \in Slots |-> Indeterminate],
   buffer_ids_sorted_by_size_ |-> [i \in Slots |-> Indeterminate],
   buffers_sorted_by_offset_ |-> [i \in Slots |->
       ListEntry(Indeterminate, Indeterminate, Indeterminate)],
   next_free_entry_ |-> Indeterminate,
   buffer_offsets_ |-> [i \in Slots |-> Indeterminate],
   need_to_calculate_offsets_ |-> TRUE]

\* What a call returned: ok is the bool a call returns (TRUE for the calls
\* that return no bool), value the int it returned, or for GetOffsetForBuffer
\* the content of the caller's *offset after the call, which the caller
\* leaves unwritten (Indeterminate) before it.
Return(op, index, ok, value) ==
  [op |-> op, index |-> index, ok |-> ok, value |-> value]

NoCall == Return("none", 0, TRUE, 0)

\* ------------------------------------------------------------ AddBuffer
\* A capacity check that is off by one.
CapacityReached_OffByOne(count) == count > kMaxBufferCount

CapacityReached(count) == count >= kMaxBufferCount

\* An AddBuffer that does not mark the plan as out of date.
AddBufferCall_KeepsFlag(p, size, first_time_used, last_time_used) ==
  IF CapacityReached(p.buffer_count_)
  THEN [p |-> p, ret |-> Return("AddBuffer", 0, FALSE, 0)]
  ELSE [p |-> [p EXCEPT
                 !.requirements_[p.buffer_count_] =
                     BufferRequirements(size, first_time_used, last_time_used),
                 !.buffer_count_ = p.buffer_count_ + 1],
        ret |-> Return("AddBuffer", 0, TRUE, 0)]

AddBufferCall(p, size, first_time_used, last_time_used) ==
  IF CapacityReached(p.buffer_count_)
  THEN [p |-> p, ret |-> Return("AddBuffer", 0, FALSE, 0)]
  ELSE [p |-> [p EXCEPT
                 !.requirements_[p.buffer_count_] =
                     BufferRequirements(size, first_time_used, last_time_used),
                 !.buffer_count_ = p.buffer_count_ + 1,
                 !.need_to_calculate_offsets_ = TRUE],
        ret |-> Return("AddBuffer", 0, TRUE, 0)]

\* ------------------------------------------------------ the layout pass
\* A time test that takes intervals that share only an end point for disjoint.
DoesEntryOverlapInTime_Strict(requirements, entry, first_time_used, last_time_used) ==
  LET entry_requirements == requirements[entry.requirements_index] IN
  IF entry_requirements.first_time_used >= last_time_used THEN FALSE
  ELSE IF first_time_used >= entry_requirements.last_time_used THEN FALSE
  ELSE TRUE

DoesEntryOverlapInTime(requirements, entry, first_time_used, last_time_used) ==
  LET entry_requirements == requirements[entry.requirements_index] IN
  IF entry_requirements.first_time_used > last_time_used THEN FALSE
  ELSE IF first_time_used > entry_requirements.last_time_used THEN FALSE
  ELSE TRUE

\* The do-while loop of NextValidEntry, from candidate_next_entry on.
RECURSIVE NextValidEntryLoop(_, _, _, _, _)
NextValidEntryLoop(requirements, pool, candidate_next_entry, first, last) ==
  IF DoesEntryOverlapInTime(requirements, pool[candidate_next_entry], first, last)
  THEN candidate_next_entry
  ELSE IF pool[candidate_next_entry].next_entry_index = NoNext
  THEN nullptr
  ELSE NextValidEntryLoop(requirements, pool,
                          pool[candidate_next_entry].next_entry_index, first, last)

NextValidEntry(requirements, pool, start, first, last) ==
  IF start = nullptr \/ pool[start].next_entry_index = NoNext
  THEN nullptr
  ELSE NextValidEntryLoop(requirements, pool, pool[start].next_entry_index,
                          first, last)

\* Where an entry's buffer ends in the arena.
EntryEnd(requirements, entry) ==
  entry.offset + requirements[entry.requirements_index].size

\* A gap scan that takes the first candidate without looking at what follows.
GapScan_FirstCandidate(requirements, pool, candidate_entry, wanted_size, first, last) ==
  candidate_entry

\* The gap scan: the candidate_entry the loop ends with.
RECURSIVE GapScan(_, _, _, _, _, _)
GapScan(requirements, pool, candidate_entry, wanted_size, first, last) ==
  LET next_entry == NextValidEntry(requirements, pool, candidate_entry, first, last) IN
  IF next_entry = nullptr THEN candidate_entry
  ELSE LET gap == pool[next_entry].offset
                    - EntryEnd(requirements, pool[candidate_entry]) IN
       IF gap >= wanted_size THEN candidate_entry
       ELSE GapScan(requirements, pool, next_entry, wanted_size, first, last)

\* The offset chosen for the buffer buffer_id, given the list built so far.
ChooseOffset(requirements, pool, buffer_id) ==
  LET wanted == requirements[buffer_id]
      first == wanted.first_time_used
      last == wanted.last_time_used
      first_entry == 0
      start == IF DoesEntryOverlapInTime(requirements, pool[first_entry], first, last)
               THEN first_entry
               ELSE NextValidEntry(requirements, pool, first_entry, first, last)
      candidate_entry == GapScan(requirements, pool, start, wanted.size, first, last)
  IN IF candidate_entry # nullptr
     THEN EntryEnd(requirements, pool[candidate_entry])
     ELSE 0

\* An insertion that links the new entry in at the end of the list.
RECURSIVE InsertInOrder_Append(_, _, _, _)
InsertInOrder_Append(pool, current_entry, new_entry_index, offset) ==
  LET next_entry_index == pool[current_entry].next_entry_index IN
  IF next_entry_index = NoNext
  THEN [pool EXCEPT ![current_entry].next_entry_index = new_entry_index,
                    ![new_entry_index].next_entry_index = NoNext]
  ELSE InsertInOrder_Append(pool, next_entry_index, new_entry_index, offset)

\* An insertion that links the new entry in before the first entry with a
\* smaller offset.
RECURSIVE InsertInOrder_BeforeSmaller(_, _, _, _)
InsertInOrder_BeforeSmaller(pool, current_entry, new_entry_index, offset) ==
  LET next_entry_index == pool[current_entry].next_entry_index IN
  IF next_entry_index = NoNext
  THEN [pool EXCEPT ![current_entry].next_entry_index = new_entry_index,
                    ![new_entry_index].next_entry_index = NoNext]
  ELSE IF pool[next_entry_index].offset < offset
  THEN [pool EXCEPT ![new_entry_index].next_entry_index = next_entry_index,
                    ![current_entry].next_entry_index = new_entry_index]
  ELSE InsertInOrder_BeforeSmaller(pool, next_entry_index, new_entry_index, offset)

\* An insertion that, between two entries, links the predecessor to the new
\* entry first and then copies that link into the new entry.
RECURSIVE InsertInOrder_LinksFirst(_, _, _, _)
InsertInOrder_LinksFirst(pool, current_entry, new_entry_index, offset) ==
  LET next_entry_index == pool[current_entry].next_entry_index IN
  IF next_entry_index = NoNext
  THEN [pool EXCEPT ![current_entry].next_entry_index = new_entry_index,
                    ![new_entry_index].next_entry_index = NoNext]
  ELSE IF pool[next_entry_index].offset > offset
  THEN [pool EXCEPT ![current_entry].next_entry_index = new_entry_index,
                    ![new_entry_index].next_entry_index = new_entry_index]
  ELSE InsertInOrder_LinksFirst(pool, next_entry_index, new_entry_index, offset)

\* An insertion that links the new entry in before the entries of its offset.
RECURSIVE InsertInOrder_BeforeTies(_, _, _, _)
InsertInOrder_BeforeTies(pool, current_entry, new_entry_index, offset) ==
  LET next_entry_index == pool[current_entry].next_entry_index IN
  IF next_entry_index = NoNext
  THEN [pool EXCEPT ![current_entry].next_entry_index = new_entry_index,
                    ![new_entry_index].next_entry_index = NoNext]
  ELSE IF pool[next_entry_index].offset >= offset
  THEN [pool EXCEPT ![new_entry_index].next_entry_index = next_entry_index,
                    ![current_entry].next_entry_index = new_entry_index]
  ELSE InsertInOrder_BeforeTies(pool, next_entry_index, new_entry_index, offset)

\* The ordered insertion of the entry at new_entry_index, from current_entry on.
RECURSIVE InsertInOrder(_, _, _, _)
InsertInOrder(pool, current_entry, new_entry_index, offset) ==
  LET next_entry_index == pool[current_entry].next_entry_index IN
  IF next_entry_index = NoNext
  THEN [pool EXCEPT ![current_entry].next_entry_index = new_entry_index,
                    ![new_entry_index].next_entry_index = NoNext]
  ELSE IF pool[next_entry_index].offset > offset
  THEN [pool EXCEPT ![new_entry_index].next_entry_index = next_entry_index,
                    ![current_entry].next_entry_index = new_entry_index]
  ELSE InsertInOrder(pool, next_entry_index, new_entry_index, offset)

\* One turn of the placement loop: the buffer ids[i] is placed and linked in.
\* L holds the list, the offsets and the bump cursor.
PlaceBuffer(requirements, ids, L, i) ==
  LET buffer_id == ids[i]
      offset == ChooseOffset(requirements, L.pool, buffer_id)
      new_entry_index == L.next_free
      written == [L.pool EXCEPT ![new_entry_index].offset = offset,
                                ![new_entry_index].requirements_index = buffer_id]
  IN [pool |-> InsertInOrder(written, 0, new_entry_index, offset),
      offsets |-> [L.offsets EXCEPT ![buffer_id] = offset],
      next_free |-> new_entry_index + 1]

RECURSIVE PlacementLoop(_, _, _, _, _)
PlacementLoop(requirements, ids, L, i, count) ==
  IF i >= count THEN L
  ELSE PlacementLoop(requirements, ids, PlaceBuffer(requirements, ids, L, i),
                     i + 1, count)

\* ReverseSortInPlace(values, ids, size) of reverse_sort_in_place.h: both
\* arrays in descending order of value, equal values in their original order.
SortRank(values, size, i) ==
  Cardinality({j \in 0..(size - 1) :
      values[j] > values[i] \/ (values[j] = values[i] /\ j < i)})

ReverseSortInPlace(values, ids, size) ==
  LET at(k) == CHOOSE i \in 0..(size - 1) : SortRank(values, size, i) = k IN
  [values |-> [k \in DOMAIN values |-> IF k < size THEN values[at(k)] ELSE values[k]],
   ids |-> [k \in DOMAIN ids |-> IF k < size THEN ids[at(k)] ELSE ids[k]]]

\* A seeding that takes the first buffer added instead of the largest.
SeedEntry_FirstAdded(ids) == ListEntry(0, 0, NoNext)

\* The largest buffer goes to offset zero, as the only entry of the list.
SeedEntry(ids) == ListEntry(0, ids[0], NoNext)

NeedsLayout(need_to_calculate_offsets, count) ==
  ~(~need_to_calculate_offsets \/ count = 0)

\* The arrays of sizes and ids the pass fills in and sorts by size.
SortedBySize(p) ==
  LET count == p.buffer_count_
      sizes0 == [i \in Slots |-> IF i < count THEN p.requirements_[i].size
                                   ELSE p.buffer_sizes_sorted_by_size_[i]]
      ids0 == [i \in Slots |-> IF i < count THEN i
                                 ELSE p.buffer_ids_sorted_by_size_[i]]
  IN ReverseSortInPlace(sizes0, ids0, count)

\* The list, the offsets and the bump cursor of a pass over p once `placed`
\* buffers are in the list: the seed entry, then the turns 1..placed-1 of the
\* placement loop.
LayoutAfter(p, placed) ==
  LET ids == SortedBySize(p).ids
      seeded == [pool |-> [p.buffers_sorted_by_offset_ EXCEPT
                             ![0] = SeedEntry(ids)],
                 offsets |-> p.buffer_offsets_,
                 next_free |-> 1]
  IN PlacementLoop(p.requirements_, ids, seeded, 1, placed)

\* A pass that rebuilds the list only the first time: later it keeps the list
\* and the bump cursor of the pass before and goes on from there.
CalculateOffsetsIfNeeded_KeepsList(p) ==
  IF ~NeedsLayout(p.need_to_calculate_offsets_, p.buffer_count_) THEN p
  ELSE
    LET sorted == SortedBySize(p)
        kept == [pool |-> p.buffers_sorted_by_offset_,
                 offsets |-> p.buffer_offsets_,
                 next_free |-> p.next_free_entry_]
        L == IF p.next_free_entry_ = Indeterminate
             THEN LayoutAfter(p, p.buffer_count_)
             ELSE PlacementLoop(p.requirements_, sorted.ids, kept,
                                p.next_free_entry_, p.buffer_count_)
    IN [p EXCEPT !.need_to_calculate_offsets_ = FALSE,
                 !.buffer_sizes_sorted_by_size_ = sorted.values,
                 !.buffer_ids_sorted_by_size_ = sorted.ids,
                 !.buffers_sorted_by_offset_ = L.pool,
                 !.next_free_entry_ = L.next_free,
                 !.buffer_offsets_ = L.offsets]

CalculateOffsetsIfNeeded(p) ==
  IF ~NeedsLayout(p.need_to_calculate_offsets_, p.buffer_count_) THEN p
  ELSE
    LET sorted == SortedBySize(p)
        L == LayoutAfter(p, p.buffer_count_)
    IN [p EXCEPT !.need_to_calculate_offsets_ = FALSE,
                 !.buffer_sizes_sorted_by_size_ = sorted.values,
                 !.buffer_ids_sorted_by_size_ = sorted.ids,
                 !.buffers_sorted_by_offset_ = L.pool,
                 !.next_free_entry_ = L.next_free,
                 !.buffer_offsets_ = L.offsets]

\* The gaps the scan for a buffer of wanted_size computes, from
\* candidate_entry on: each with the two entries it lies between.
RECURSIVE GapsComputed(_, _, _, _, _, _)
GapsComputed(requirements, pool, candidate_entry, wanted_size, first, last) ==
  LET next_entry == NextValidEntry(requirements, pool, candidate_entry, first, last) IN
  IF next_entry = nullptr THEN {}
  ELSE LET gap == pool[next_entry].offset
                    - EntryEnd(requirements, pool[candidate_entry]) IN
       {[candidate_entry |-> candidate_entry, next_entry |-> next_entry, gap |-> gap]}
         \cup (IF gap >= wanted_size THEN {}
               ELSE GapsComputed(requirements, pool, next_entry, wanted_size,
                                 first, last))

\* The gaps computed when the buffer buffer_id is placed into the list pool.
GapsFor(requirements, pool, buffer_id) ==
  LET wanted == requirements[buffer_id]
      first == wanted.first_time_used
      last == wanted.last_time_used
      first_entry == 0
      start == IF DoesEntryOverlapInTime(requirements, pool[first_entry], first, last)
               THEN first_entry
               ELSE NextValidEntry(requirements, pool, first_entry, first, last)
  IN GapsComputed(requirements, pool, start, wanted.size, first, last)

\* ------------------------------------------------- GetMaximumMemorySize
\* A walk that takes the end of the last entry of the list for the maximum.
RECURSIVE HighWaterWalk_LastEntry(_, _, _, _)
HighWaterWalk_LastEntry(requirements, pool, entry, max_size) ==
  IF pool[entry].next_entry_index = NoNext
  THEN EntryEnd(requirements, pool[entry])
  ELSE HighWaterWalk_LastEntry(requirements, pool,
                               pool[entry].next_entry_index, max_size)

\* The walk of GetMaximumMemorySize from entry on, max_size so far.
RECURSIVE HighWaterWalk(_, _, _, _)
HighWaterWalk(requirements, pool, entry, max_size) ==
  LET current_size == EntryEnd(requirements, pool[entry])
      new_max == IF current_size > max_size THEN current_size ELSE max_size
  IN IF pool[entry].next_entry_index = NoNext THEN new_max
     ELSE HighWaterWalk(requirements, pool, pool[entry].next_entry_index, new_max)

\* What GetMaximumMemorySize returns once the layout pass has been called.
HighWater(p) ==
  IF p.buffer_count_ = 0 THEN 0
  ELSE HighWaterWalk(p.requirements_, p.buffers_sorted_by_offset_, 0, 0)

\* A GetMaximumMemorySize that walks the list before the layout pass
\* (0 when no list has been built yet).
GetMaximumMemorySizeCall_WalksFirst(p) ==
  [p |-> CalculateOffsetsIfNeeded(p),
   ret |-> Return("GetMaximumMemorySize", 0, TRUE,
                  IF p.next_free_entry_ = Indeterminate THEN 0 ELSE HighWater(p))]

GetMaximumMemorySizeCall(p) ==
  LET q == CalculateOffsetsIfNeeded(p) IN
  [p |-> q, ret |-> Return("GetMaximumMemorySize", 0, TRUE, HighWater(q))]

\* ------------------------------------------------------ PrintMemoryPlan
\* The diagram goes to the error reporter; the object changes only by the
\* layout pass the call starts with.
PrintMemoryPlanCall(p) ==
  [p |-> CalculateOffsetsIfNeeded(p), ret |-> Return("PrintMemoryPlan", 0, TRUE, 0)]

\* ------------------------------------------------------- GetBufferCount
GetBufferCountCall(p) ==
  [p |-> p, ret |-> Return("GetBufferCount", 0, TRUE, p.buffer_count_)]

\* --------------------------------------------------- GetOffsetForBuffer
\* A range check that is off by one.
IndexOutOfRange_OffByOne(buffer_index, count) ==
  (buffer_index < 0) \/ (buffer_index > count)

IndexOutOfRange(buffer_index, count) ==
  (buffer_index < 0) \/ (buffer_index >= count)

\* The ints a read of the int cell may produce.
ReadInt(cell) == IF cell = Indeterminate THEN IndeterminateReads ELSE {cell}

\* The outcomes of GetOffsetForBuffer: one, unless it reads a cell that was
\* never written.
GetOffsetForBufferCalls(p, buffer_index) ==
  IF IndexOutOfRange(buffer_index, p.buffer_count_)
  THEN {[p |-> p, ret |-> Return("GetOffsetForBuffer", buffer_index, FALSE, Indeterminate)]}
  ELSE {[p |-> p, ret |-> Return("GetOffsetForBuffer", buffer_index, TRUE, v)] :
          v \in ReadInt(IF buffer_index \in Slots THEN p.buffer_offsets_[buffer_index]
                        ELSE Indeterminate)}

\* ------------------------------------------- one planner and its client
Init ==
  /\ planner = GreedyMemoryPlanner
  /\ ret = NoCall
  /\ prev_op = "none"
  /\ twin = GreedyMemoryPlanner
  /\ twin_ret = NoCall
  /\ replanned = FALSE

\* Whether the call op on p runs a layout pass over a list built before.
Replans(p, op) ==
  /\ op \in {"GetMaximumMemorySize", "PrintMemoryPlan"}
  /\ NeedsLayout(p.need_to_calculate_offsets_, p.buffer_count_)
  /\ p.next_free_entry_ # Indeterminate

Called(c) ==
  /\ planner' = c.p
  /\ ret' = c.ret
  /\ prev_op' = ret.op
  /\ replanned' = (replanned \/ Replans(planner, c.ret.op))
  /\ UNCHANGED <<twin, twin_ret>>

AddBuffer ==
  \E size \in Sizes, first \in Times, last \in Times :
    /\ first <= last
    /\ Called(AddBufferCall(planner, size, first, last))

GetMaximumMemorySize == Called(GetMaximumMemorySizeCall(planner))

PrintMemoryPlan == Called(PrintMemoryPlanCall(planner))

GetBufferCount == Called(GetBufferCountCall(planner))

GetOffsetForBuffer ==
  \E buffer_index \in Indexes :
    \E c \in GetOffsetForBufferCalls(planner, buffer_index) : Called(c)

Next ==
  \/ AddBuffer
  \/ GetMaximumMemorySize
  \/ PrintMemoryPlan
  \/ GetBufferCount
  \/ GetOffsetForBuffer

Spec == Init /\ [][Next]_vars

\* ------------------------- two planners that receive the same calls
CalledOnBoth(c, d) ==
  /\ planner' = c.p
  /\ ret' = c.ret
  /\ prev_op' = ret.op
  /\ replanned' = (replanned \/ Replans(planner, c.ret.op))
  /\ twin' = d.p
  /\ twin_ret' = d.ret

BothAddBuffer ==
  \E size \in Sizes, first \in Times, last \in Times :
    /\ first <= last
    /\ CalledOnBoth(AddBufferCall(planner, size, first, last),
                    AddBufferCall(twin, size, first, last))

BothGetMaximumMemorySize ==
  CalledOnBoth(GetMaximumMemorySizeCall(planner), GetMaximumMemorySizeCall(twin))

BothPrintMemoryPlan ==
  CalledOnBoth(PrintMemoryPlanCall(planner), PrintMemoryPlanCall(twin))

BothGetBufferCount ==
  CalledOnBoth(GetBufferCountCall(planner), GetBufferCountCall(twin))

BothGetOffsetForBuffer ==
  \E buffer_index \in Indexes :
    \E c \in GetOffsetForBufferCalls(planner, buffer_index),
       d \in GetOffsetForBufferCalls(twin, buffer_index) : CalledOnBoth(c, d)

NextTwin ==
  \/ BothAddBuffer
  \/ BothGetMaximumMemorySize
  \/ BothPrintMemoryPlan
  \/ BothGetBufferCount
  \/ BothGetOffsetForBuffer

SpecTwin == Init /\ [][NextTwin]_vars

\* ============================================================ the claims
Count == planner.buffer_count_
Clean == ~planner.need_to_calculate_offsets_
Req(i) == planner.requirements_[i]
Pool == planner.buffers_sorted_by_offset_
\* The entries of the list after a layout pass of Count buffers.
Nodes == {k \in Slots : k < Count}
NodeReq(k) == Req(Pool[k].requirements_index)
NodeEnd(k) == Pool[k].offset + NodeReq(k).size
\* The entries that hold the buffer id.
NodesOf(id) == {k \in Nodes : Pool[k].requirements_index = id}
AllSizesPositive == \A i \in 0..(Count - 1) : Req(i).size > 0
TimeOverlap(a, b) ==
  a.first_time_used <= b.last_time_used /\ b.first_time_used <= a.last_time_used
SetMax(S) == CHOOSE x \in S : \A y \in S : y <= x
MaxAddedSize == SetMax({Req(i).size : i \in 0..(Count - 1)})
\* The first id in size order: the earliest added among the largest buffers.
LargestId ==
  CHOOSE i \in 0..(Count - 1) :
    /\ Req(i).size = MaxAddedSize
    /\ \A j \in 0..(Count - 1) : Req(j).size = MaxAddedSize => i <= j
\* Every call stores its name in ret, so a step that changes the state and
\* ends with ret.op = op is a call of op.
IsCall(op) == ret'.op = op
LayoutForcingRead == IsCall("GetMaximumMemorySize") \/ IsCall("PrintMemoryPlan")

\* C1: after a layout pass over buffers of size > 0, any two distinct placed
\* buffers whose live intervals overlap occupy disjoint byte ranges.
C1_NoOverlap ==
  (Clean /\ Count > 0 /\ AllSizesPositive) =>
    \A k \in Nodes, m \in Nodes :
      (k # m /\ TimeOverlap(NodeReq(k), NodeReq(m))) =>
        (NodeEnd(k) <= Pool[m].offset \/ NodeEnd(m) <= Pool[k].offset)

\* C2: a successful GetOffsetForBuffer that directly follows an AddBuffer has
\* run the layout pass: the planner is clean and the offset returned is the
\* one a layout of all the buffers added so far assigns.
C2_OffsetReadRunsLayout ==
  (ret.op = "GetOffsetForBuffer" /\ ret.ok /\ prev_op = "AddBuffer") =>
    /\ Clean
    /\ \A k \in NodesOf(ret.index) : ret.value = Pool[k].offset

\* C3: after a layout pass the largest buffer heads the list at offset 0, and
\* GetOffsetForBuffer for its id yields 0.
C3_LargestAtZero ==
  (Clean /\ Count > 0) =>
    /\ Pool[0].offset = 0
    /\ Pool[0].requirements_index = LargestId
    /\ (ret.op = "GetOffsetForBuffer" /\ ret.ok /\ ret.index = LargestId)
         => ret.value = 0

\* C4: two planners that received the same calls, and so the same AddBuffer
\* sequence, yield the same offset for every id and the same high-water mark.
C4_TwinsAgree ==
  (ret.op \in {"GetOffsetForBuffer", "GetMaximumMemorySize"}
     /\ Clean /\ ~twin.need_to_calculate_offsets_)
    => (twin_ret.op = ret.op /\ twin_ret.index = ret.index
        /\ twin_ret.ok = ret.ok /\ twin_ret.value = ret.value)

\* C5: buffer_count_ never exceeds the capacity, and an AddBuffer made at
\* capacity returns false and leaves the whole object unchanged.
C5_CapacityRefusal ==
  /\ [](Count <= kMaxBufferCount)
  /\ [][(IsCall("AddBuffer") /\ Count = kMaxBufferCount)
          => (~ret'.ok /\ planner' = planner)]_vars

C5_Witness ==
  ret.op = "AddBuffer" /\ ~ret.ok /\ Count = kMaxBufferCount /\ Clean

\* C6: GetOffsetForBuffer with an index outside [0, count) returns false and
\* leaves the caller's offset unwritten; with an index inside it returns true.
C6_IndexCheck ==
  ret.op = "GetOffsetForBuffer" =>
    IF ret.index \in 0..(Count - 1)
    THEN ret.ok /\ ret.value # Indeterminate
    ELSE ~ret.ok /\ ret.value = Indeterminate

C6_Witness ==
  ret.op = "GetOffsetForBuffer" /\ ~ret.ok /\ ret.index = Count /\ Count > 0

\* C7: GetMaximumMemorySize returns the maximum of offset + size over the
\* placed buffers, every added buffer being placed exactly once, and 0 when
\* no buffer has been added.
C7_HighWaterIsMax ==
  ret.op = "GetMaximumMemorySize" =>
    IF Count = 0 THEN ret.value = 0
    ELSE /\ \A id \in 0..(Count - 1) : Cardinality(NodesOf(id)) = 1
         /\ \A k \in Nodes : k # 0 =>
              planner.buffer_offsets_[Pool[k].requirements_index] = Pool[k].offset
         /\ ret.value = SetMax({NodeEnd(k) : k \in Nodes})

C7_Witness ==
  /\ ret.op = "GetMaximumMemorySize"
  /\ Count = kMaxBufferCount
  /\ ret.value > MaxAddedSize
  /\ \E k \in Nodes : NodeEnd(k) < ret.value /\ Pool[k].next_entry_index = NoNext

\* C8: GetMaximumMemorySize called again directly after itself returns the
\* same value, and a layout-forcing read made when no buffer has been added
\* since the last one leaves every offset and the list unchanged.
C8_Idempotence ==
  /\ [][(IsCall("GetMaximumMemorySize") /\ ret.op = "GetMaximumMemorySize")
          => ret'.value = ret.value]_vars
  /\ [][(LayoutForcingRead /\ (Clean \/ Count = 0))
          => (/\ planner'.buffer_offsets_ = planner.buffer_offsets_
              /\ planner'.buffers_sorted_by_offset_ = Pool
              /\ planner'.next_free_entry_ = planner.next_free_entry_)]_vars

C8_Witness ==
  /\ ret.op = "GetMaximumMemorySize"
  /\ prev_op = "GetMaximumMemorySize"
  /\ Count >= 2
  /\ ret.value > 0

\* C9: with at least one buffer added, GetMaximumMemorySize returns no less
\* than the largest size added.
C9_HighWaterFloor ==
  (ret.op = "GetMaximumMemorySize" /\ Count > 0) => ret.value >= MaxAddedSize

C9_Witness ==
  /\ ret.op = "GetMaximumMemorySize"
  /\ Count >= 2
  /\ MaxAddedSize > 0
  /\ ret.value = MaxAddedSize
  /\ Pool[0].requirements_index # 0

\* The number of buffers the last layout pass placed, none before the first.
PlannedCount ==
  IF planner.next_free_entry_ = Indeterminate THEN 0 ELSE planner.next_free_entry_
AddedSincePlan == Count > PlannedCount
NeverPlanned == planner.next_free_entry_ = Indeterminate

\* The transitions of the dirty flag: a successful AddBuffer sets it, a layout
\* pass (a layout-forcing read with a buffer to place) clears it, and only a
\* successful AddBuffer sets it again.
DirtyTransitions ==
  /\ [][(IsCall("AddBuffer") /\ ret'.ok) => planner'.need_to_calculate_offsets_]_vars
  /\ [][(LayoutForcingRead /\ Count > 0) => ~planner'.need_to_calculate_offsets_]_vars
  /\ [][(Clean /\ planner'.need_to_calculate_offsets_)
          => (IsCall("AddBuffer") /\ ret'.ok)]_vars

RECURSIVE WalkFrom(_, _, _)
WalkFrom(pool, entry, fuel) ==
  IF fuel = 0 \/ entry \notin Slots THEN <<>>
  ELSE <<entry>> \o WalkFrom(pool, pool[entry].next_entry_index, fuel - 1)

Walk(pool) == WalkFrom(pool, 0, kMaxBufferCount + 1)

\* The offsets met along the walk.
WalkOffsets(pool) == [a \in 1..Len(Walk(pool)) |-> pool[Walk(pool)[a]].offset]
StrictlyIncreasing(seq) == \A a \in 1..(Len(seq) - 1) : seq[a] < seq[a + 1]
NonDecreasing(seq) == \A a \in 1..(Len(seq) - 1) : seq[a] <= seq[a + 1]

\* C11 as stated: after a layout pass, the walk of the list from its head
\* meets strictly increasing offsets, none of them twice.
C11_StrictlyIncreasing ==
  (Clean /\ Count > 0) => StrictlyIncreasing(WalkOffsets(Pool))

\* C11 amended: after a layout pass, the walk of the list from its head meets
\* offsets that never decrease; an offset may repeat, and between buffers of
\* size > 0 it repeats only for buffers whose live intervals are disjoint.
C11_NonDecreasing ==
  (Clean /\ Count > 0) =>
    /\ NonDecreasing(WalkOffsets(Pool))
    /\ AllSizesPositive =>
         \A k \in Nodes, m \in Nodes :
           (k # m /\ Pool[k].offset = Pool[m].offset) =>
             ~TimeOverlap(NodeReq(k), NodeReq(m))

\* A list of three entries, two of them at offset zero and one above.
C11_Witness ==
  /\ Clean
  /\ Count = 3
  /\ AllSizesPositive
  /\ WalkOffsets(Pool)[1] = 0
  /\ WalkOffsets(Pool)[2] = 0
  /\ WalkOffsets(Pool)[3] > 0

\* ----------------------------------- the list during the pass over planner
\* The ids in the order the pass places them.
Ids == SortedBySize(planner).ids
\* The list once `placed` buffers are in it: after the seed entry for
\* placed = 1, after the turn placed - 1 of the placement loop otherwise.
ListAfter(placed) == LayoutAfter(planner, placed).pool
\* Whether the walk w of pool meets the buffer id exactly once.
MeetsOnce(pool, w, id) ==
  Cardinality({a \in 1..Len(w) : pool[w[a]].requirements_index = id}) = 1

\* Whether pool is a list of `placed` entries in offset order that holds the
\* first `placed` buffers of ids once each.
SortedAndComplete(pool, ids, placed) ==
  LET w == Walk(pool) IN
  /\ Len(w) = placed
  /\ \A a \in 1..(placed - 1) : pool[w[a]].offset <= pool[w[a + 1]].offset
  /\ \A i \in 0..(placed - 1) : MeetsOnce(pool, w, ids[i])

\* C12: in the layout pass over the buffers added, after the seed entry and
\* after every turn of the placement loop, the walk of the list from its head
\* meets non-decreasing offsets and meets every buffer placed so far exactly
\* once, and nothing else; at the end of the pass it meets every id in
\* [0, count) exactly once, and that list is the one a clean planner holds.
C12_WalkSortedAndComplete ==
  Count > 0 =>
    LET ids == Ids
        last == ListAfter(Count)
    IN /\ \A placed \in 1..Count : SortedAndComplete(ListAfter(placed), ids, placed)
       /\ \A id \in 0..(Count - 1) : MeetsOnce(last, Walk(last), id)
       /\ Clean => Pool = last

\* A finished list of three entries where the last entry placed was linked in
\* between the two others.
C12_Witness ==
  /\ Clean
  /\ Count = 3
  /\ Walk(Pool) = <<0, 2, 1>>
  /\ WalkOffsets(Pool)[2] = 0
  /\ WalkOffsets(Pool)[3] > 0

\* The entries of pool that hold one of the first `placed` buffers placed and
\* are live at some time the buffer id is.
ConflictingPlaced(pool, placed, id) ==
  {k \in 0..(placed - 1) :
     TimeOverlap(Req(pool[k].requirements_index), Req(id))}

\* C13: in the layout pass a clean planner has run over buffers of size > 0,
\* every gap the scan computed between a conflicting candidate and the next conflicting entry is
\* non-negative, and when a gap >= the wanted size is accepted, the bytes from
\* the candidate's end to that end plus the wanted size hold no placed buffer
\* that is live at some time the buffer being placed is.
C13_GapsNonNegative ==
  (Clean /\ Count > 0 /\ AllSizesPositive) =>
    \A i \in 1..(Count - 1) :
      LET pool == ListAfter(i)
          wanted_size == Req(Ids[i]).size
      IN \A g \in GapsFor(planner.requirements_, pool, Ids[i]) :
           LET candidate_end == EntryEnd(planner.requirements_, pool[g.candidate_entry]) IN
           /\ g.gap >= 0
           /\ g.gap >= wanted_size =>
                \A k \in ConflictingPlaced(pool, i, Ids[i]) :
                  \/ EntryEnd(planner.requirements_, pool[k]) <= candidate_end
                  \/ pool[k].offset >= candidate_end + wanted_size

\* A planner just constructed that has received the first n AddBuffer calls
\* planner has accepted, and nothing else.
RECURSIVE FreshAfterAdds(_)
FreshAfterAdds(n) ==
  IF n = 0 THEN GreedyMemoryPlanner
  ELSE AddBufferCall(FreshAfterAdds(n - 1), Req(n - 1).size,
                     Req(n - 1).first_time_used, Req(n - 1).last_time_used).p

\* The single query made on that planner at the end.
SingleQuery == GetMaximumMemorySizeCall(FreshAfterAdds(Count))

\* C14: whatever queries were made between the AddBuffer calls, the list of a
\* clean planner and its high-water mark are those of a fresh planner that
\* received the same AddBuffer calls and one GetMaximumMemorySize at the end,
\* and a GetMaximumMemorySize just made has returned what that one returns.
C14_PlanIgnoresQueries ==
  /\ (Clean /\ Count > 0) =>
       /\ Pool = SingleQuery.p.buffers_sorted_by_offset_
       /\ planner.next_free_entry_ = SingleQuery.p.next_free_entry_
       /\ HighWater(planner) = SingleQuery.ret.value
  /\ ret.op = "GetMaximumMemorySize" => ret.value = SingleQuery.ret.value

\* A plan of three buffers that replaced an earlier plan, the buffer added
\* last being the largest.
C14_Witness ==
  /\ replanned
  /\ Clean
  /\ Count = 3
  /\ ret.op = "GetMaximumMemorySize"
  /\ LargestId = 2
  /\ ret.value > MaxAddedSize

\* The entries placed before entry k (the pool is filled in placement order)
\* whose buffer is live at some time the buffer of k is.
EarlierConflicting(k) ==
  {m \in 0..(k - 1) : TimeOverlap(NodeReq(m), NodeReq(k))}
AllDisjointInTime ==
  \A i \in 0..(Count - 1), j \in 0..(Count - 1) :
    i # j => ~TimeOverlap(Req(i), Req(j))

\* C15: after a layout pass, every buffer placed after the first sits at
\* offset 0 if no buffer placed before it overlaps it in time, and otherwise
\* at the end (offset + size) of some buffer placed before it that overlaps it
\* in time; that offset is the one recorded for the buffer.  When all buffers
\* are pairwise disjoint in time, all offsets are 0 and the high-water mark is
\* the largest size.
C15_OffsetProvenance ==
  (Clean /\ Count > 0) =>
    /\ \A k \in Nodes \ {0} :
         /\ IF EarlierConflicting(k) = {} THEN Pool[k].offset = 0
            ELSE \E m \in EarlierConflicting(k) : Pool[k].offset = NodeEnd(m)
         /\ planner.buffer_offsets_[Pool[k].requirements_index] = Pool[k].offset
    /\ AllDisjointInTime =>
         /\ \A k \in Nodes : Pool[k].offset = 0
         /\ HighWater(planner) = MaxAddedSize
         /\ ret.op = "GetMaximumMemorySize" => ret.value = MaxAddedSize

\* Three buffers of size > 0: the second placed is disjoint in time from the
\* first and sits at 0, the third overlaps one of them and sits at its end.
C15_Witness ==
  /\ Clean
  /\ Count = 3
  /\ AllSizesPositive
  /\ EarlierConflicting(1) = {}
  /\ Pool[1].offset = 0
  /\ EarlierConflicting(2) # {}
  /\ Pool[2].offset > 0
  /\ ret.op = "GetMaximumMemorySize"

\* The sizes of the first n buffers added, summed.
RECURSIVE SumOfSizes(_)
SumOfSizes(n) == IF n = 0 THEN 0 ELSE SumOfSizes(n - 1) + Req(n - 1).size
AllOverlapInTime ==
  \A i \in 0..(Count - 1), j \in 0..(Count - 1) : TimeOverlap(Req(i), Req(j))

\* C16: after a layout pass over buffers of size >= 0, the high-water mark,
\* which is what GetMaximumMemorySize returns, is at most the sum of the sizes
\* of all buffers added, and equals that sum when all buffers pairwise overlap
\* in time.
C16_StackingBound ==
  (Clean /\ Count > 0) =>
    /\ HighWater(planner) <= SumOfSizes(Count)
    /\ AllOverlapInTime => HighWater(planner) = SumOfSizes(Count)
    /\ ret.op = "GetMaximumMemorySize" => ret.value = HighWater(planner)

\* Three buffers of size > 0 that all overlap in time, stacked end to end.
C16_Witness ==
  /\ Clean
  /\ Count = 3
  /\ AllSizesPositive
  /\ AllOverlapInTime
  /\ ret.op = "GetMaximumMemorySize"
  /\ ret.value = SumOfSizes(3)
  /\ ret.value > MaxAddedSize

\* Whether the walk of pool from its head ends, after exactly n distinct
\* entries, at an entry without successor.  Every loop of the pass and of
\* GetMaximumMemorySize only moves along next_entry_index, so on such a list
\* it visits at most n entries.
EndsAfter(pool, n) ==
  LET w == Walk(pool) IN
  /\ Len(w) = n
  /\ pool[w[n]].next_entry_index = NoNext
  /\ \A a \in 1..n, b \in 1..n : a # b => w[a] # w[b]

\* C17: whatever buffers have been added, up to the capacity, the layout pass
\* over them works on a list that after the seed entry and after every turn of
\* the placement loop is acyclic, ends in an entry without successor and has
\* as many entries as buffers placed, at most count; so the gap scan, the
\* insertion walk and the walk of GetMaximumMemorySize end after at most count
\* entries.  The list a clean planner holds is such a list of count entries.
C17_WalksTerminate ==
  Count > 0 =>
    /\ \A placed \in 1..Count : EndsAfter(ListAfter(placed), placed)
    /\ Clean => EndsAfter(Pool, Count)

\* A planner filled to capacity whose list GetMaximumMemorySize has just
\* walked, the last entry placed linked in before the end of the list.
C17_Witness ==
  /\ Clean
  /\ Count = kMaxBufferCount
  /\ ret.op = "GetMaximumMemorySize"
  /\ prev_op = "AddBuffer"
  /\ Len(Walk(Pool)) = Count
  /\ Pool[Count - 1].next_entry_index # NoNext

\* Whether L, the list and bump cursor of a pass with `placed` buffers placed,
\* has pool entry 0 as its head with the first buffer placed in it and no
\* entry linked in before it, uses exactly the pool entries 0..placed-1, has
\* its cursor at placed, and keeps entries of equal offset in the order they
\* were placed in (pool index order).
HeadCursorAndTies(L, placed) ==
  LET pool == L.pool
      w == Walk(pool)
  IN /\ w[1] = 0
     /\ pool[0].requirements_index = Ids[0]
     /\ \A k \in 0..(placed - 1) : pool[k].next_entry_index # 0
     /\ {w[a] : a \in 1..Len(w)} = 0..(placed - 1)
     /\ L.next_free = placed
     /\ \A a \in 1..Len(w), b \in 1..Len(w) :
          (a < b /\ pool[w[a]].offset = pool[w[b]].offset) => w[a] < w[b]

\* C18: in the layout pass over the buffers added, after the seed entry and
\* after every turn of the placement loop, pool entry 0 is the head of the
\* list and nothing is linked in before it, one pool entry is in use per
\* buffer placed, next_free_entry_ is the number of buffers placed and so at
\* most count, and an entry placed later comes after the entries of the same
\* offset placed before it.  A clean planner has next_free_entry_ = count.
C18_HeadCursorAndTies ==
  Count > 0 =>
    /\ \A placed \in 1..Count :
         HeadCursorAndTies(LayoutAfter(planner, placed), placed)
    /\ Clean => planner.next_free_entry_ = Count

\* Three buffers, the last two placed at the same offset above the first:
\* the later one follows the earlier one in the list.
C18_Witness ==
  /\ Clean
  /\ Count = 3
  /\ planner.next_free_entry_ = 3
  /\ Pool[1].offset > 0
  /\ Pool[2].offset = Pool[1].offset
  /\ Walk(Pool) = <<0, 1, 2>>

====
